---- MODULE Spec2Model ----
(***************************************************************************)
(* Extended attributes of the APFS driver (xattr.c): the catalog records   *)
(* of the attributes, their out-of-line data streams, and the operations   *)
(* get, set, delete, deleteAll and list.                                   *)
(*                                                                         *)
(* Sizes are scaled: the block size, the embedding threshold and the       *)
(* VFS's XATTR_SIZE_MAX keep their order (threshold < block size <         *)
(* XATTR_SIZE_MAX, the latter a whole number of blocks) but are a few      *)
(* bytes, so that values of every class (inline, one block, several        *)
(* blocks with a partial last block, above XATTR_SIZE_MAX) are sequences   *)
(* TLC can enumerate.  Error numbers are the kernel's.                     *)
(***************************************************************************)
EXTENDS Integers, Sequences, FiniteSets, TLC

VARIABLES index, extents, next_obj_id, written, last

vars == <<index, extents, next_obj_id, written, last>>

(***************************************************************************)
(* Program constants                                                       *)
(***************************************************************************)
\* apfs.h: 3804 in the driver; scaled
APFS_XATTR_MAX_EMBEDDED_SIZE == 1
\* sb->s_blocksize: 4096 in the driver; scaled
s_blocksize == 2
\* include/uapi/linux/limits.h: 65536; scaled to two blocks
XATTR_SIZE_MAX == 4
\* sizeof(struct apfs_xattr_dstream)
SIZEOF_XATTR_DSTREAM == 48
\* "osx."
XATTR_MAC_OSX_PREFIX == <<111, 115, 120, 46>>
XATTR_MAC_OSX_PREFIX_LEN == Len(XATTR_MAC_OSX_PREFIX)

ENOMEM == 12
EIO == 5
ENODATA == 61
EEXIST == 17
ERANGE == 34
E2BIG == 7
EFSCORRUPTED == 117
EAGAIN == 11

(***************************************************************************)
(* Bounds of the model                                                     *)
(***************************************************************************)
\* the volume's next object id at mount
FirstObjId == 1
\* stream creations are offered while the counter is at most this
MaxObjId == 2

(***************************************************************************)
(* Inputs                                                                  *)
(***************************************************************************)
Owners == {1, 2}
\* attribute names in catalog key order; the last is the symlink target's
NameSeq == << <<97>>, <<98, 97>> >>
Names == {NameSeq[i] : i \in 1..Len(NameSeq)}
APFS_XATTR_NAME_SYMLINK == <<98, 97>>
Keys == Owners \X Names
\* the keys the operations are offered: two of owner 1, one of owner 2
InputKeys == {k \in Keys : k[1] = 1 \/ k[2] = NameSeq[1]}

\* value bytes: an inline value, a two-block stream value with a partial
\* last block, and a three-block value longer than XATTR_SIZE_MAX
Values == { <<1>>, <<1, 2, 1>>, <<2, 1, 2, 2, 1>> }
NullValue == [null |-> TRUE, bytes |-> <<>>]
SetValues == {NullValue} \cup {[null |-> FALSE, bytes |-> v] : v \in Values}
SetFlags == SUBSET {"XATTR_CREATE", "XATTR_REPLACE"}
\* buffer capacities offered to get: none fits but the empty value, one
\* fits the first stream value exactly, one the second
Caps == {0, 3, 5}
\* buffer capacities offered to list: the entry of the first name, the entry
\* of the second, both
ListCaps == {6, 7, 13}
\* the capacity argument passed to list along with no buffer
ListNoBufferSizes == {0, 6}

Min(a, b) == IF a < b THEN a ELSE b
SetMin(S) == CHOOSE x \in S : \A y \in S : x <= y
Zeros(n) == [i \in 1..n |-> 0]

(***************************************************************************)
(* Faults of the collaborators (allocator, block layer, b-tree,            *)
(* transaction manager): at most one per call, at a named place; n is the  *)
(* block index or the loop iteration where it strikes.                     *)
(***************************************************************************)
NoFault == [at |-> "none", n |-> 0]
Hit(f, at, n) == f.at = at /\ f.n = n

(***************************************************************************)
(* Records of the catalog                                                  *)
(***************************************************************************)
NoDs == [ds_id |-> 0, ds_size |-> 0, ds_size_hi |-> 0]

\* key_name: the name bytes as stored; name_len: the key's name_len field;
\* datalen: the bytes stored after the value header; xdata_len: the value's
\* xdata_len field; ds: the stream reference parsed from the payload, its
\* size split as ds_size_hi * 2^31 + ds_size
NoRec == [present |-> FALSE, key_name |-> <<>>, name_len |-> 0, flags |-> {},
          xdata_len |-> 0, datalen |-> 0, xdata |-> <<>>, ds |-> NoDs]

\* a block of a stream as the block layer answers for it
OkBlock(data) == [st |-> "ok", data |-> data]

\* the xattr struct filled by apfs_xattr_from_query
NoXattr == [err |-> 0, has_dstream |-> FALSE, name |-> <<>>, name_len |-> 0,
            xdata |-> <<>>, xdata_len |-> 0, ds |-> NoDs]

\* mutant: the terminator is not looked for
from_query_no_terminator_check(rec) ==
    LET datalen == rec.datalen
        namelen == Len(rec.key_name)
        has_dstream == "DATA_STREAM" \in rec.flags
    IN  IF namelen < 1 \/ datalen < 0
          THEN [NoXattr EXCEPT !.err = -EFSCORRUPTED]
        ELSE IF namelen # rec.name_len
          THEN [NoXattr EXCEPT !.err = -EFSCORRUPTED]
        ELSE IF has_dstream /\ datalen # SIZEOF_XATTR_DSTREAM
          THEN [NoXattr EXCEPT !.err = -EFSCORRUPTED]
        ELSE IF ~has_dstream /\ datalen # rec.xdata_len
          THEN [NoXattr EXCEPT !.err = -EFSCORRUPTED]
        ELSE [err |-> 0, has_dstream |-> has_dstream,
              name |-> rec.key_name, name_len |-> namelen - 1,
              xdata |-> rec.xdata, xdata_len |-> datalen, ds |-> rec.ds]

apfs_xattr_from_query(rec) ==
    LET datalen == rec.datalen
        namelen == Len(rec.key_name)
        has_dstream == "DATA_STREAM" \in rec.flags
    IN  IF namelen < 1 \/ datalen < 0
          THEN [NoXattr EXCEPT !.err = -EFSCORRUPTED]
        ELSE IF namelen # rec.name_len
          THEN [NoXattr EXCEPT !.err = -EFSCORRUPTED]
        ELSE IF rec.key_name[namelen] # 0
          THEN [NoXattr EXCEPT !.err = -EFSCORRUPTED]
        ELSE IF has_dstream /\ datalen # SIZEOF_XATTR_DSTREAM
          THEN [NoXattr EXCEPT !.err = -EFSCORRUPTED]
        ELSE IF ~has_dstream /\ datalen # rec.xdata_len
          THEN [NoXattr EXCEPT !.err = -EFSCORRUPTED]
        ELSE [err |-> 0, has_dstream |-> has_dstream,
              name |-> rec.key_name, name_len |-> namelen - 1,
              xdata |-> rec.xdata, xdata_len |-> datalen, ds |-> rec.ds]

apfs_dstream_from_xattr(xattr) ==
    [ds_id |-> xattr.ds.ds_id, ds_size |-> xattr.ds.ds_size,
     ds_size_hi |-> xattr.ds.ds_size_hi]

(***************************************************************************)
(* Collaborators                                                           *)
(***************************************************************************)
\* exact query of the catalog for (cnid, name)
apfs_btree_query(idx, k, f) ==
    IF Hit(f, "query", 0) THEN -EIO
    ELSE IF idx[k].present THEN 0 ELSE -ENODATA

\* the owner's records in key order
OwnerNames(idx, cnid) ==
    SelectSeq(NameSeq, LAMBDA n : idx[<<cnid, n>>].present)

\* extent lookup: 0 and a block number, or an error; bno 0 is a hole
apfs_logic_to_phys_bno(ext, dstream, i, f) ==
    IF Hit(f, "resolve", i) THEN [err |-> -EIO, bno |-> 0]
    ELSE IF i + 1 > Len(ext[dstream.ds_id])
      THEN [err |-> -EFSCORRUPTED, bno |-> 0]
    ELSE IF ext[dstream.ds_id][i + 1].st = "hole" THEN [err |-> 0, bno |-> 0]
    ELSE [err |-> 0, bno |-> i + 1]

\* frees the stream's blocks from new_size on; only 0 is ever asked
apfs_truncate(ext, dstream, new_size) ==
    [ext EXCEPT ![dstream.ds_id] =
        SubSeq(@, 1, Min(Len(@), (new_size + s_blocksize - 1) \div s_blocksize))]

(***************************************************************************)
(* Reading a value                                                         *)
(***************************************************************************)
Ev(e, i) == [ev |-> e, i |-> i]

RECURSIVE Cat(_, _)
\* fn[0] \o ... \o fn[n - 1]
Cat(fn, n) == IF n = 0 THEN <<>> ELSE Cat(fn, n - 1) \o fn[n - 1]

\* length = dstream->ds_size stored in an int: negative or smaller than
\* ds_size exactly when ds_size does not fit 31 bits
LengthOverflows(dstream) == dstream.ds_size_hi # 0

BlkCnt(length) == (length + s_blocksize - 1) \div s_blocksize

\* the bytes of the block at off that belong to the value
Tocopy(length, off) == Min(s_blocksize, length - off)

\* mutant: the read copies whole blocks
ReadTocopyWholeBlock(length, off) == s_blocksize

\* the bytes the read copies out of the block at off
ReadTocopy(length, off) == Tocopy(length, off)

\* the length a read copies when the buffer is given
ReadLength(length, size, only_whole) ==
    IF only_whole
      THEN IF length > size THEN -ERANGE ELSE length
      ELSE IF length > size THEN size ELSE length

ReadResult(ret, buf, log) == [ret |-> ret, buf |-> buf, log |-> log]

\* mutant: a hole is read like a block
HoleAllowed(bno) == 0

\* the error for the block number a logical block resolved to
HoleError(bno) == IF bno = 0 THEN -EFSCORRUPTED ELSE 0

apfs_xattr_extents_read(ext, xattr, hasbuf, size, only_whole, f) ==
    IF Hit(f, "kzalloc", 0) THEN ReadResult(-ENOMEM, <<>>, <<>>)
    ELSE
    LET dstream == apfs_dstream_from_xattr(xattr)
        blocks == ext[dstream.ds_id]
        alloc == <<Ev("kzalloc_dstream", 0)>>
        free == <<Ev("kfree_dstream", 0)>>
        length == ReadLength(dstream.ds_size, size, only_whole)
        blkcnt == BlkCnt(length)
        resolve(i) == apfs_logic_to_phys_bno(ext, dstream, i, f)
        \* where the first loop stops: at the first block that does not
        \* resolve, is a hole or cannot be got
        err1(i) == IF resolve(i).err # 0 THEN resolve(i).err
                   ELSE IF HoleError(resolve(i).bno) # 0
                     THEN HoleError(resolve(i).bno)
                   ELSE IF Hit(f, "getblk", i) THEN -EIO
                   ELSE 0
        bad1 == {i \in 0..(blkcnt - 1) : err1(i) # 0}
        stop1 == IF bad1 = {} THEN blkcnt ELSE SetMin(bad1)
        got(i) == i < stop1
        log1 == Cat([i \in 0..(blkcnt - 1) |->
                       IF i < stop1
                         THEN <<Ev("resolve", i), Ev("getblk", i), Ev("submit", i)>>
                       ELSE IF i = stop1 /\ resolve(i).err = 0 /\ resolve(i).bno # 0
                         THEN <<Ev("resolve", i), Ev("getblk", i)>>
                       ELSE IF i = stop1 THEN <<Ev("resolve", i)>>
                       ELSE <<>>], blkcnt)
        \* where the second loop stops: at the first block not up to date
        bad2 == {i \in 0..(blkcnt - 1) :
                    blocks[i + 1].st = "bad" \/ Hit(f, "read", i)}
        stop2 == IF bad2 = {} THEN blkcnt ELSE SetMin(bad2)
        log2 == Cat([i \in 0..(blkcnt - 1) |->
                       IF i < stop2 THEN <<Ev("wait", i), Ev("copy", i)>>
                       ELSE IF i = stop2 THEN <<Ev("wait", i)>>
                       ELSE <<>>], blkcnt)
        buf2 == Cat([i \in 0..(blkcnt - 1) |->
                       IF i < stop2
                         THEN SubSeq(blocks[i + 1].data, 1,
                                     ReadTocopy(length, i * s_blocksize))
                         ELSE <<>>], blkcnt)
        out == Cat([i \in 0..(blkcnt - 1) |->
                       IF got(i) THEN <<Ev("brelse", i)>> ELSE <<>>], blkcnt)
               \o <<Ev("kfree_bhs", 0)>> \o free
        bhs == <<Ev("kcalloc_bhs", 0)>>
    IN  IF LengthOverflows(dstream)
          THEN ReadResult(-E2BIG, <<>>, alloc)
        ELSE IF ~hasbuf
          THEN ReadResult(dstream.ds_size, <<>>, alloc \o free)
        ELSE IF length < 0
          THEN ReadResult(length, <<>>, alloc \o free)
        ELSE IF stop1 < blkcnt
          THEN ReadResult(err1(stop1), <<>>, alloc \o bhs \o log1 \o out)
        ELSE IF stop2 < blkcnt
          THEN ReadResult(-EIO, buf2, alloc \o bhs \o log1 \o log2 \o out)
        ELSE ReadResult(length, buf2, alloc \o bhs \o log1 \o log2 \o out)

apfs_xattr_inline_read(xattr, hasbuf, size, only_whole) ==
    LET length == ReadLength(xattr.xdata_len, size, only_whole)
    IN  IF ~hasbuf THEN ReadResult(xattr.xdata_len, <<>>, <<>>)
        ELSE IF length < 0 THEN ReadResult(length, <<>>, <<>>)
        ELSE ReadResult(length, SubSeq(xattr.xdata, 1, length), <<Ev("copy", 0)>>)

____apfs_xattr_get(idx, ext, cnid, name, hasbuf, size, only_whole, f) ==
    LET ret == apfs_btree_query(idx, <<cnid, name>>, f)
        xattr == apfs_xattr_from_query(idx[<<cnid, name>>])
    IN  IF Hit(f, "alloc_query", 0) THEN ReadResult(-ENOMEM, <<>>, <<>>)
        ELSE IF ret # 0 THEN ReadResult(ret, <<>>, <<>>)
        ELSE IF xattr.err # 0 THEN ReadResult(xattr.err, <<>>, <<>>)
        ELSE IF xattr.has_dstream
          THEN apfs_xattr_extents_read(ext, xattr, hasbuf, size, only_whole, f)
        ELSE apfs_xattr_inline_read(xattr, hasbuf, size, only_whole)

\* mutant: partial reads allowed
GetPartial == FALSE

\* only_whole of __apfs_xattr_get
GetOnlyWhole == TRUE

__apfs_xattr_get(idx, ext, cnid, name, hasbuf, size, f) ==
    ____apfs_xattr_get(idx, ext, cnid, name, hasbuf, size, GetOnlyWhole, f)

\* mutant: no limit on the size returned
GetReturnUnchecked(ret) == ret

\* the return of apfs_xattr_get for the return of __apfs_xattr_get
GetReturn(ret) == IF ret > XATTR_SIZE_MAX THEN -E2BIG ELSE ret

\* r: what __apfs_xattr_get returned and did
GetResult(r) ==
    [ret |-> GetReturn(r.ret), iret |-> r.ret, buf |-> r.buf, log |-> r.log]

apfs_xattr_get(idx, ext, cnid, name, hasbuf, size, f) ==
    GetResult(__apfs_xattr_get(idx, ext, cnid, name, hasbuf, size, f))

(***************************************************************************)
(* Deleting                                                                *)
(***************************************************************************)
\* the volume state an operation works on; steps: what the operation has done
\* to the volume so far, each step with the catalog and the streams it left
State(idx, ext, nid) ==
    [index |-> idx, extents |-> ext, next_obj_id |-> nid, steps |-> <<>>]

\* s, with the step ev that led to it recorded
Step(s, ev) ==
    [s EXCEPT !.steps = Append(@, [ev |-> ev, index |-> s.index,
                                   extents |-> s.extents])]

OpResult(ret, s) == [ret |-> ret, s |-> s]

\* removes the record the query points to
apfs_btree_remove(idx, k) == [idx EXCEPT ![k] = NoRec]

\* mutant: the stream of a deleted record is left alone
DeleteNoTruncate(ext, dstream) == ext

\* the blocks of the deleted record's stream after the record is removed
DeleteTruncate(ext, dstream) == apfs_truncate(ext, dstream, 0)

\* the record of k removed
Removed(s, k) ==
    Step([s EXCEPT !.index = apfs_btree_remove(s.index, k)], "remove")

\* mutant: the stream is truncated while its record is still in the catalog
TruncateThenRemove(s, k, dstream) ==
    Removed(Step([s EXCEPT !.extents = DeleteTruncate(s.extents, dstream)],
                 "truncate"), k)

\* the record removed, then its stream truncated
RemoveThenTruncate(s, k, dstream) ==
    Step([Removed(s, k) EXCEPT !.extents = DeleteTruncate(s.extents, dstream)],
         "truncate")

\* it: the iteration of the caller's loop, 0 when there is none
apfs_delete_xattr(s, k, f, it) ==
    LET xattr == apfs_xattr_from_query(s.index[k])
        dstream == apfs_dstream_from_xattr(xattr)
        removed == Removed(s, k)
    IN  IF xattr.err # 0 THEN OpResult(xattr.err, s)
        ELSE IF ~xattr.has_dstream
          THEN IF Hit(f, "remove", it) THEN OpResult(-EIO, Step(s, "remove_failed"))
               ELSE OpResult(0, removed)
        ELSE IF Hit(f, "kzalloc_del", it) THEN OpResult(-ENOMEM, s)
        ELSE IF Hit(f, "remove", it) THEN OpResult(-EIO, Step(s, "remove_failed"))
        ELSE IF Hit(f, "truncate", it)
          THEN OpResult(-EIO, Step(removed, "truncate_failed"))
        ELSE OpResult(0, RemoveThenTruncate(s, k, dstream))

\* mutant: a successful single delete reports that all is done
DeletedReturnDone(ret) == ret

\* the return of apfs_delete_any_xattr for the return of the single delete
DeletedReturn(ret) == IF ret = 0 THEN -EAGAIN ELSE ret

\* the any-name query finds the owner's first record in key order
apfs_delete_any_xattr(s, cnid, f, it) ==
    LET names == OwnerNames(s.index, cnid)
        queried == Step(s, "query")
        del == apfs_delete_xattr(queried, <<cnid, names[1]>>, f, it)
    IN  IF Hit(f, "alloc_query", it) THEN OpResult(-ENOMEM, s)
        ELSE IF Hit(f, "query", it) THEN OpResult(-EIO, queried)
        ELSE IF names = <<>> THEN OpResult(0, queried)
        ELSE OpResult(DeletedReturn(del.ret), del.s)

\* mutant: the loop goes round again after an error too
DeleteAgainOnError(ret) == ret # 0

\* does the loop of apfs_delete_all_xattrs go round again
DeleteAgain(ret) == ret = -EAGAIN

RECURSIVE DeleteLoop(_, _, _, _)
DeleteLoop(s, cnid, f, it) ==
    LET r == apfs_delete_any_xattr(s, cnid, f, it)
    IN  IF DeleteAgain(r.ret) THEN DeleteLoop(r.s, cnid, f, it + 1) ELSE r

apfs_delete_all_xattrs(s, cnid, f) == DeleteLoop(s, cnid, f, 0)

(***************************************************************************)
(* Writing                                                                 *)
(***************************************************************************)
apfs_build_xattr_key(name) ==
    [name_len |-> (Len(name) + 1) % 65536, key_name |-> name \o <<0>>]

apfs_build_dstream_xattr_val(dstream) ==
    [flags |-> {"DATA_STREAM"}, xdata_len |-> SIZEOF_XATTR_DSTREAM,
     datalen |-> SIZEOF_XATTR_DSTREAM, xdata |-> <<>>,
     ds |-> [ds_id |-> dstream.ds_id, ds_size |-> dstream.ds_size,
             ds_size_hi |-> dstream.ds_size_hi]]

\* mutant: the value is not copied into the record
inline_val_not_copied(value, size) ==
    [flags |-> {"DATA_EMBEDDED"}, xdata_len |-> size % 65536,
     datalen |-> size, xdata |-> Zeros(size), ds |-> NoDs]

apfs_build_inline_xattr_val(value, size) ==
    [flags |-> {"DATA_EMBEDDED"}, xdata_len |-> size % 65536,
     datalen |-> size, xdata |-> SubSeq(value, 1, size), ds |-> NoDs]

\* the record the b-tree stores for a built key and value
Record(key, val, name) ==
    [present |-> TRUE, key_name |-> key.key_name, name_len |-> key.name_len,
     flags |-> IF name = APFS_XATTR_NAME_SYMLINK
                 THEN val.flags \cup {"FILE_SYSTEM_OWNED"} ELSE val.flags,
     xdata_len |-> val.xdata_len, datalen |-> val.datalen,
     xdata |-> val.xdata, ds |-> val.ds]

\* mutant: the counter is not advanced
ObjIdNotAdvanced(nid) == nid

\* the volume's apfs_next_obj_id after one id was taken
ObjIdAfter(nid) == nid + 1

\* block i of the new stream: the chunk of the value, zero padded
NewBlock(value, size, i) ==
    LET off == i * s_blocksize
        tocopy == Tocopy(size, off)
    IN  OkBlock(SubSeq(value, off + 1, off + tocopy) \o Zeros(s_blocksize - tocopy))

\* err, the dstream, and the volume state with the blocks allocated so far
apfs_create_xattr_dstream(s, value, size, f) ==
    LET id == s.next_obj_id
        taken == [s EXCEPT !.next_obj_id = ObjIdAfter(id)]
        blkcnt == BlkCnt(size)
        \* the first block whose allocation, read or join fails
        bad == {i \in 0..(blkcnt - 1) :
                  Hit(f, "new_bno", i) \/ Hit(f, "bread", i) \/ Hit(f, "join", i)}
        stop == IF bad = {} THEN blkcnt ELSE SetMin(bad)
        \* blocks written before the failure, and the block allocated but
        \* not written when its read or join failed
        nalloc == IF stop < blkcnt /\ ~Hit(f, "new_bno", stop) THEN stop + 1 ELSE stop
        blocks == [i \in 1..nalloc |->
                     IF i - 1 < stop THEN NewBlock(value, size, i - 1)
                     ELSE OkBlock(Zeros(s_blocksize))]
        with == [taken EXCEPT !.extents[id] = blocks]
        dstream == [ds_id |-> id, ds_size_hi |-> 0,
                    ds_size |-> IF stop = 0 THEN 0
                                ELSE Min(size, stop * s_blocksize)]
        err == IF stop = blkcnt THEN IF Hit(f, "flush", 0) THEN -EIO ELSE 0
               ELSE IF Hit(f, "new_bno", stop) THEN -ENOMEM
               ELSE -EIO
    IN  IF Hit(f, "kzalloc_create", 0)
          THEN [err |-> -ENOMEM, dstream |-> NoDs, s |-> s]
        ELSE [err |-> err, dstream |-> dstream,
              s |-> Step(with, IF err = 0 THEN "create" ELSE "create_failed")]

\* mutant: a value of exactly the threshold goes to a stream
UseDstreamAtThreshold(size) == size >= APFS_XATTR_MAX_EMBEDDED_SIZE

\* is the value stored in a stream of its own
UseDstream(size) == size > APFS_XATTR_MAX_EMBEDDED_SIZE

\* mutant: the delete branch is tested before XATTR_CREATE
SetDecisionDeleteFirst(ret, value, flags) ==
    IF ret # 0
      THEN IF "XATTR_REPLACE" \in flags THEN "fail" ELSE "insert"
    ELSE IF value.null THEN "delete"
    ELSE IF "XATTR_CREATE" \in flags THEN "fail_exist"
    ELSE "replace"

\* mutant: XATTR_REPLACE is not looked at
SetDecisionNoReplace(ret, value, flags) ==
    IF ret # 0 THEN "insert"
    ELSE IF "XATTR_CREATE" \in flags THEN "fail_exist"
    ELSE IF value.null THEN "delete"
    ELSE "replace"

\* the outcome of the lookup and the flags: "fail", "fail_exist", "delete",
\* "replace" or "insert"; ret is the query's return (0 or -ENODATA)
SetDecision(ret, value, flags) ==
    IF ret # 0
      THEN IF "XATTR_REPLACE" \in flags THEN "fail" ELSE "insert"
    ELSE IF "XATTR_CREATE" \in flags THEN "fail_exist"
    ELSE IF value.null THEN "delete"
    ELSE "replace"

\* mutant: the stream of the record replaced is left as it is
ReplaceKeepsOld(ext, old_dstream) == ext

\* the old stream's blocks once the record has been replaced
ReplaceTruncate(ext, old_dstream) == apfs_truncate(ext, old_dstream, 0)

\* the lookup and what follows it, once the new stream (if any) is built
SetRecord(s, dstream, cnid, name, value, size, flags, f) ==
    LET k == <<cnid, name>>
        ret == apfs_btree_query(s.index, k, f)
        what == SetDecision(ret, value, flags)
        old == apfs_xattr_from_query(s.index[k])
        old_dstream == apfs_dstream_from_xattr(old)
        raw_key == apfs_build_xattr_key(name)
        raw_val == IF UseDstream(size)
                     THEN apfs_build_dstream_xattr_val(dstream)
                     ELSE apfs_build_inline_xattr_val(value.bytes, size)
        stored == Step([s EXCEPT !.index[k] = Record(raw_key, raw_val, name)],
                       IF ret # 0 THEN "insert" ELSE "replace")
    IN  IF Hit(f, "alloc_query", 0) THEN OpResult(-ENOMEM, s)
        ELSE IF ret # 0 /\ ret # -ENODATA THEN OpResult(ret, s)
        ELSE IF what = "fail" THEN OpResult(ret, s)
        ELSE IF what = "fail_exist" THEN OpResult(-EEXIST, s)
        ELSE IF what = "delete" THEN apfs_delete_xattr(s, k, f, 0)
        ELSE IF what = "replace" /\ old.err # 0 THEN OpResult(old.err, s)
        ELSE IF what = "replace" /\ old.has_dstream /\ Hit(f, "kzalloc_old", 0)
          THEN OpResult(-ENOMEM, s)
        ELSE IF Hit(f, "build_key", 0) \/ Hit(f, "build_val", 0)
          THEN OpResult(-ENOMEM, s)
        ELSE IF Hit(f, "insert", 0)
          THEN OpResult(-EIO, Step(s, IF ret # 0 THEN "insert_failed"
                                      ELSE "replace_failed"))
        ELSE IF what = "replace" /\ old.has_dstream
          THEN IF Hit(f, "truncate", 0)
                 THEN OpResult(-EIO, Step(stored, "truncate_failed"))
               ELSE OpResult(0, Step([stored EXCEPT
                       !.extents = ReplaceTruncate(s.extents, old_dstream)],
                                     "truncate"))
        ELSE OpResult(0, stored)

\* mk: the outcome of the stream creation
SetWithDstream(mk, cnid, name, value, size, flags, f) ==
    IF mk.err # 0 THEN OpResult(mk.err, mk.s)
    ELSE SetRecord(mk.s, mk.dstream, cnid, name, value, size, flags, f)

apfs_xattr_set(s, cnid, name, value, size, flags, f) ==
    IF UseDstream(size)
      THEN SetWithDstream(apfs_create_xattr_dstream(s, value.bytes, size, f),
                          cnid, name, value, size, flags, f)
      ELSE SetRecord(s, NoDs, cnid, name, value, size, flags, f)

(***************************************************************************)
(* Transactions (transaction.c): a transaction that is aborted leaves the  *)
(* volume as it was when the transaction started.                          *)
(***************************************************************************)
apfs_transaction_start(f) == IF Hit(f, "start", 0) THEN -ENOMEM ELSE 0

apfs_transaction_commit(f) == IF Hit(f, "commit", 0) THEN -EIO ELSE 0

\* the volume as it was at the start; the steps taken are kept on record
apfs_transaction_abort(started, now) ==
    Step([started EXCEPT !.steps = now.steps], "abort")

\* mutant: the transaction is committed whatever the operation returned
EndTransactionCommitAlways(s, r, f) ==
    IF apfs_transaction_commit(f) # 0
      THEN OpResult(apfs_transaction_commit(f),
                    apfs_transaction_abort(s, Step(r.s, "commit_failed")))
    ELSE OpResult(r.ret, Step(r.s, "commit"))

\* r: the outcome of the operation inside the transaction that began at s
EndTransaction(s, r, f) ==
    IF r.ret # 0
      THEN OpResult(r.ret, apfs_transaction_abort(s, r.s))
    ELSE IF apfs_transaction_commit(f) # 0
      THEN OpResult(apfs_transaction_commit(f),
                    apfs_transaction_abort(s, Step(r.s, "commit_failed")))
    ELSE OpResult(0, Step(r.s, "commit"))

apfs_xattr_osx_set(s, cnid, name, value, size, flags, f) ==
    IF apfs_transaction_start(f) # 0
      THEN OpResult(apfs_transaction_start(f), s)
      ELSE EndTransaction(s, apfs_xattr_set(Step(s, "start"), cnid, name, value,
                                            size, flags, f), f)

\* apfs_delete_all_xattrs inside its caller's transaction
DeleteAllInTransaction(s, cnid, f) ==
    IF apfs_transaction_start(f) # 0
      THEN OpResult(apfs_transaction_start(f), s)
      ELSE EndTransaction(s, apfs_delete_all_xattrs(Step(s, "start"), cnid, f), f)

(***************************************************************************)
(* Listing                                                                 *)
(***************************************************************************)
\* size_t is 64 bits wide in the driver; 30 here, the most TLC's integers
\* leave room for
SIZE_T_RANGE == 1073741824
SizeT(x) == x % SIZE_T_RANGE

\* mutant: the terminator is not counted
EntrySizeNoNul(xattr) == xattr.name_len + XATTR_MAC_OSX_PREFIX_LEN

\* the bytes one entry takes in the list
EntrySize(xattr) == xattr.name_len + XATTR_MAC_OSX_PREFIX_LEN + 1

\* mutant: an entry is written when any capacity is left
EntryFitsPartly(xattr, free) == free > 0

\* has the buffer room for the whole entry
EntryFits(xattr, free) == ~(EntrySize(xattr) > free)

RECURSIVE ListLoop(_, _, _, _, _, _, _, _)
\* names: the owner's records in key order; i: the next one; free: the
\* capacity left; buf: the bytes written so far
ListLoop(idx, cnid, names, i, hasbuf, size, free, buf) ==
    LET xattr == apfs_xattr_from_query(idx[<<cnid, names[i]>>])
    IN  IF i > Len(names) THEN [ret |-> SizeT(size - free), buf |-> buf]
        ELSE IF xattr.err # 0 THEN [ret |-> xattr.err, buf |-> buf]
        ELSE IF hasbuf /\ ~EntryFits(xattr, free)
          THEN [ret |-> -ERANGE, buf |-> buf]
        ELSE ListLoop(idx, cnid, names, i + 1, hasbuf, size,
                      SizeT(free - EntrySize(xattr)),
                      IF hasbuf
                        THEN buf \o XATTR_MAC_OSX_PREFIX
                                 \o SubSeq(xattr.name, 1, xattr.name_len + 1)
                        ELSE buf)

apfs_listxattr(idx, cnid, hasbuf, size, f) ==
    IF Hit(f, "alloc_query", 0) THEN [ret |-> -ENOMEM, buf |-> <<>>]
    ELSE ListLoop(idx, cnid, OwnerNames(idx, cnid), 1, hasbuf, size, size, <<>>)

(***************************************************************************)
(* The state machine                                                       *)
(***************************************************************************)
ObjIds == 0..(MaxObjId + 1)

\* written[k]: the value of the last successful set of k, if no successful
\* delete followed it
NotWritten == [set |-> FALSE, bytes |-> <<>>]

\* the last operation: its arguments, the catalog and the streams it found
\* (pre, pre_ext), its return (iret: the return of __apfs_xattr_get), the
\* bytes written to the caller's buffer, the events of the read and the steps
\* of the write
NoOp == [op |-> "none", cnid |-> 0, name |-> <<>>, value |-> NullValue,
         flags |-> {}, hasbuf |-> FALSE, size |-> 0, fault |-> NoFault,
         pre |-> [k \in Keys |-> NoRec], pre_ext |-> [id \in ObjIds |-> <<>>],
         ret |-> 0, iret |-> 0, buf |-> <<>>, log |-> <<>>, steps |-> <<>>]

Init ==
    /\ index = [k \in Keys |-> NoRec]
    /\ extents = [id \in ObjIds |-> <<>>]
    /\ next_obj_id = FirstObjId
    /\ written = [k \in Keys |-> NotWritten]
    /\ last = NoOp

\* the faults offered to each operation
\* the allocation of the second block of a new stream fails
SetFaults == {[at |-> "new_bno", n |-> 1]}
\* does the fault strike in a set of a value of this size
Strikes(f, size) == f.at = "new_bno" => f.n < BlkCnt(size) /\ UseDstream(size)
GetFaults == {NoFault}
DeleteAllFaults == {[at |-> "truncate", n |-> 1]}
ListFaults == {NoFault}

\* buffer and capacity: without a buffer the capacity is not looked at
Buffers == {<<FALSE, 0>>} \cup {<<TRUE, c>> : c \in Caps}
ListBuffers == {<<FALSE, c>> : c \in ListNoBufferSizes}
               \cup {<<TRUE, c>> : c \in ListCaps}

\* the volume after an operation that returned r
Becomes(r) ==
    /\ index' = r.s.index
    /\ extents' = r.s.extents
    /\ next_obj_id' = r.s.next_obj_id

SetDone(r, cnid, name, value, flags, f) ==
    /\ Becomes(r)
    /\ written' = IF r.ret # 0 THEN written
                  ELSE [written EXCEPT ![<<cnid, name>>] =
                          IF value.null THEN NotWritten
                          ELSE [set |-> TRUE, bytes |-> value.bytes]]
    /\ last' = [NoOp EXCEPT !.op = "set", !.cnid = cnid, !.name = name,
                            !.value = value, !.flags = flags,
                            !.size = Len(value.bytes), !.fault = f,
                            !.ret = r.ret, !.steps = r.s.steps,
                            !.pre = index, !.pre_ext = extents]

Set(cnid, name, value, flags, f) ==
    /\ UseDstream(Len(value.bytes)) => next_obj_id <= MaxObjId
    /\ SetDone(apfs_xattr_osx_set(State(index, extents, next_obj_id), cnid, name,
                                  value, Len(value.bytes), flags, f),
               cnid, name, value, flags, f)

GetDone(r, cnid, name, hasbuf, size, f) ==
    /\ last' = [NoOp EXCEPT !.op = "get", !.cnid = cnid, !.name = name,
                            !.hasbuf = hasbuf, !.size = size, !.fault = f,
                            !.ret = r.ret, !.iret = r.iret, !.buf = r.buf,
                            !.log = r.log, !.pre = index, !.pre_ext = extents]
    /\ UNCHANGED <<index, extents, next_obj_id, written>>

Get(cnid, name, hasbuf, size, f) ==
    GetDone(apfs_xattr_get(index, extents, cnid, name, hasbuf, size, f),
            cnid, name, hasbuf, size, f)

DeleteAllDone(r, cnid, f) ==
    /\ Becomes(r)
    /\ written' = IF r.ret # 0 THEN written
                  ELSE [k \in Keys |->
                          IF k[1] = cnid THEN NotWritten ELSE written[k]]
    /\ last' = [NoOp EXCEPT !.op = "deleteAll", !.cnid = cnid, !.fault = f,
                            !.ret = r.ret, !.steps = r.s.steps,
                            !.pre = index, !.pre_ext = extents]

DeleteAll(cnid, f) ==
    DeleteAllDone(DeleteAllInTransaction(State(index, extents, next_obj_id), cnid, f),
                  cnid, f)

ListDone(r, cnid, hasbuf, size, f) ==
    /\ last' = [NoOp EXCEPT !.op = "list", !.cnid = cnid, !.hasbuf = hasbuf,
                            !.size = size, !.fault = f, !.ret = r.ret,
                            !.buf = r.buf, !.pre = index, !.pre_ext = extents]
    /\ UNCHANGED <<index, extents, next_obj_id, written>>

List(cnid, hasbuf, size, f) ==
    ListDone(apfs_listxattr(index, cnid, hasbuf, size, f), cnid, hasbuf, size, f)

Next ==
    \/ \E k \in InputKeys, v \in SetValues, fl \in SetFlags :
          Set(k[1], k[2], v, fl, NoFault)
    \/ \E k \in InputKeys, v \in SetValues, f \in SetFaults :
          Strikes(f, Len(v.bytes)) /\ Set(k[1], k[2], v, {}, f)
    \/ \E k \in InputKeys, b \in Buffers, f \in GetFaults :
          Get(k[1], k[2], b[1], b[2], f)
    \/ \E o \in Owners : DeleteAll(o, NoFault)
    \/ \E o \in Owners, b \in ListBuffers, f \in ListFaults : List(o, b[1], b[2], f)

Spec == Init /\ [][Next]_vars

(***************************************************************************)
(* A volume that was not written by this driver: the records of owner 1    *)
(* are found as the mounted file system has them, well formed or not       *)
(* (apfs_xattr_from_query is the protection against crafted file systems), *)
(* and the second block of a stream may be a hole or unreadable.           *)
(***************************************************************************)
CraftedOwner == SetMin(Owners)
CraftedValue == <<1, 2, 1>>
GoodInline(n) ==
    Record(apfs_build_xattr_key(n), apfs_build_inline_xattr_val(<<1>>, 1), n)
GoodStream(n) ==
    Record(apfs_build_xattr_key(n),
           apfs_build_dstream_xattr_val([ds_id |-> FirstObjId, ds_size_hi |-> 0,
                                         ds_size |-> Len(CraftedValue)]), n)
GoodBlocks ==
    [i \in 1..BlkCnt(Len(CraftedValue)) |->
        NewBlock(CraftedValue, Len(CraftedValue), i - 1)]
\* the blocks with the last one turned into st
LastBlock(blocks, st) == [blocks EXCEPT ![Len(blocks)].st = st]

\* the key holds the terminator only
EmptyName(rec) == [rec EXCEPT !.key_name = <<0>>, !.name_len = 1]
\* the key ends before the terminator
NoTerminator(rec) ==
    [rec EXCEPT !.key_name = SubSeq(@, 1, Len(@) - 1), !.name_len = @ - 1]
\* the name_len field is not the length of the name in the key
NameLenMismatch(rec) == [rec EXCEPT !.name_len = @ + 1]
\* the key ends with its header
NoName(rec) == [rec EXCEPT !.key_name = <<>>, !.name_len = 0]
\* an embedded value flagged as a stream
BadStreamLen(rec) == [rec EXCEPT !.flags = {"DATA_STREAM"}]
\* the xdata_len field is not the length of the payload
BadInlineLen(rec) == [rec EXCEPT !.xdata_len = @ + 1]
\* the size field of the stream does not fit an int
HugeSize(rec) == [rec EXCEPT !.ds.ds_size_hi = 1]

Crafted(rec, blocks) == [rec |-> rec, blocks |-> blocks]
\* what may be found under the first name, with the blocks of stream FirstObjId
CraftedFirst ==
    LET n == NameSeq[1]
    IN  { Crafted(GoodInline(n), <<>>),
          Crafted(GoodStream(n), GoodBlocks),
          Crafted(GoodStream(n), LastBlock(GoodBlocks, "hole")),
          Crafted(GoodStream(n), LastBlock(GoodBlocks, "bad")),
          Crafted(HugeSize(GoodStream(n)), GoodBlocks),
          Crafted(EmptyName(GoodInline(n)), <<>>),
          Crafted(NoTerminator(GoodInline(n)), <<>>),
          Crafted(NoTerminator(GoodStream(n)), GoodBlocks),
          Crafted(NameLenMismatch(GoodInline(n)), <<>>),
          Crafted(NoName(GoodInline(n)), <<>>),
          Crafted(BadStreamLen(GoodInline(n)), <<>>),
          Crafted(BadInlineLen(GoodInline(n)), <<>>) }
\* what may be found under the second name
CraftedSecond ==
    LET n == NameSeq[2]
    IN  { NoRec, GoodInline(n), NoTerminator(GoodInline(n)) }

InitCrafted ==
    /\ \E a \in CraftedFirst, b \in CraftedSecond :
          /\ index = [k \in Keys |->
                        IF k = <<CraftedOwner, NameSeq[1]>> THEN a.rec
                        ELSE IF k = <<CraftedOwner, NameSeq[2]>> THEN b
                        ELSE NoRec]
          /\ extents = [id \in ObjIds |->
                          IF id = FirstObjId THEN a.blocks ELSE <<>>]
    /\ next_obj_id = ObjIdAfter(FirstObjId)
    /\ written = [k \in Keys |-> NotWritten]
    /\ last = NoOp

\* the block layer fails on the first or the second block of a read
CraftedGetFaults ==
    {NoFault} \cup {[at |-> a, n |-> 1] : a \in {"resolve", "getblk", "read"}}
              \cup {[at |-> "read", n |-> 0]}
CraftedBuffers == {<<FALSE, 0>>, <<TRUE, 0>>, <<TRUE, Len(CraftedValue)>>}
CraftedSetValues ==
    {NullValue} \cup {[null |-> FALSE, bytes |-> v] : v \in {<<1>>, CraftedValue}}

NextCrafted ==
    \/ \E n \in Names, b \in CraftedBuffers, f \in CraftedGetFaults :
          /\ f # NoFault => b = <<TRUE, Len(CraftedValue)>>
          /\ Get(CraftedOwner, n, b[1], b[2], f)
    \/ \E b \in ListBuffers : List(CraftedOwner, b[1], b[2], NoFault)
    \/ \E n \in Names, v \in CraftedSetValues : Set(CraftedOwner, n, v, {}, NoFault)
    \/ DeleteAll(CraftedOwner, NoFault)

SpecCrafted == InitCrafted /\ [][NextCrafted]_vars

(***************************************************************************)
(* The operations that write, with a collaborator failing in any one       *)
(* place: set and deleteAll of one owner, starting from the empty volume.  *)
(***************************************************************************)
FaultOwner == SetMin(Owners)
FaultSetValues ==
    {NullValue} \cup {[null |-> FALSE, bytes |-> v] : v \in {<<1>>, <<1, 2, 1>>}}
\* the places of a set that fail once, and those that fail for a given block
SetFaultPlaces ==
    {"start", "kzalloc_create", "flush", "alloc_query", "query", "kzalloc_old",
     "kzalloc_del", "build_key", "build_val", "insert", "remove", "truncate",
     "commit"}
SetBlockFaultPlaces == {"new_bno", "bread", "join"}
AllSetFaults ==
    {[at |-> a, n |-> 0] : a \in SetFaultPlaces}
    \cup {[at |-> a, n |-> i] : a \in SetBlockFaultPlaces,
                               i \in 0..(BlkCnt(XATTR_SIZE_MAX) - 1)}
\* the places of a deleteAll that fail in a given iteration of its loop
DeleteFaultPlaces == {"alloc_query", "query", "kzalloc_del", "remove", "truncate"}
AllDeleteFaults ==
    {[at |-> a, n |-> 0] : a \in {"start", "commit"}}
    \cup {[at |-> a, n |-> it] : a \in DeleteFaultPlaces, it \in 0..Len(NameSeq)}

NextFaults ==
    \/ \E n \in Names, v \in FaultSetValues, fl \in SetFlags :
          Set(FaultOwner, n, v, fl, NoFault)
    \/ \E n \in Names, v \in FaultSetValues, f \in AllSetFaults :
          Set(FaultOwner, n, v, {}, f)
    \/ \E f \in {NoFault} \cup AllDeleteFaults : DeleteAll(FaultOwner, f)

SpecFaults == Init /\ [][NextFaults]_vars

(***************************************************************************)
(* Properties                                                              *)
(***************************************************************************)
LastKey == <<last.cnid, last.name>>
\* the record the last operation found under its key
LastFound == last.pre[LastKey]
IsStream(rec) == rec.present /\ "DATA_STREAM" \in rec.flags
IsInline(rec) == rec.present /\ "DATA_STREAM" \notin rec.flags
WrittenLen == Len(written[LastKey].bytes)
\* a get of a key whose last successful set stands, into a buffer that
\* holds the value
GetOfWritten ==
    /\ last.op = "get" /\ last.fault = NoFault
    /\ written[LastKey].set
    /\ last.hasbuf /\ last.size >= WrittenLen
EventsOf(log, evs) == SelectSeq(log, LAMBDA x : x.ev \in evs)
\* the event e once for each of the blocks 0 .. n - 1, in order
EachBlock(e, n) == [i \in 1..n |-> Ev(e, i - 1)]
\* every allocated block belongs to the stream of a live record
NoOrphanBlocks ==
    \A id \in ObjIds : extents[id] # <<>> =>
        \E k \in Keys : IsStream(index[k]) /\ index[k].ds.ds_id = id

\* C1: after a successful set of a value no longer than the inline
\* threshold, and whatever successful sets and deletes came before it, a get
\* with capacity >= length returns the length and exactly the value's bytes.
T_C1_InlineSetGet ==
    (GetOfWritten /\ WrittenLen <= APFS_XATTR_MAX_EMBEDDED_SIZE) =>
        /\ last.ret = WrittenLen
        /\ last.buf = written[LastKey].bytes
        /\ IsInline(index[LastKey])

W_C1_InlineSetGet ==
    /\ GetOfWritten /\ WrittenLen <= APFS_XATTR_MAX_EMBEDDED_SIZE
    /\ last.ret = 1 /\ last.buf = <<1>>
    /\ next_obj_id > FirstObjId

\* C2: after a successful set of a value longer than the inline threshold,
\* __apfs_xattr_get with capacity >= length returns the length and exactly
\* the value's bytes, read from the record's stream block by block: every
\* block 0 .. blkcnt - 1 is resolved and copied once, in order, and the
\* partial last block contributes only the bytes of the value.
T_C2_StreamSetGet ==
    (GetOfWritten /\ WrittenLen > APFS_XATTR_MAX_EMBEDDED_SIZE) =>
        /\ last.iret = WrittenLen
        /\ last.buf = written[LastKey].bytes
        /\ IsStream(index[LastKey])
        /\ EventsOf(last.log, {"resolve"}) = EachBlock("resolve", BlkCnt(WrittenLen))
        /\ EventsOf(last.log, {"copy"}) = EachBlock("copy", BlkCnt(WrittenLen))

W_C2_StreamSetGet ==
    /\ GetOfWritten /\ WrittenLen = 3
    /\ last.iret = 3 /\ last.buf = <<1, 2, 1>>
    /\ Len(EventsOf(last.log, {"copy"})) = 2

\* C3: no two live records reference the same stream id; every live stream
\* id was handed out by the counter (it is below apfs_next_obj_id), and a
\* successful set of a stream value stored the id the counter had and left
\* the counter one above it.
T_C3_StreamIdsUnique ==
    /\ \A k1, k2 \in Keys :
          (k1 # k2 /\ IsStream(index[k1]) /\ IsStream(index[k2])) =>
              index[k1].ds.ds_id # index[k2].ds.ds_id
    /\ \A k \in Keys : IsStream(index[k]) =>
          (FirstObjId <= index[k].ds.ds_id /\ index[k].ds.ds_id < next_obj_id)
    /\ (last.op = "set" /\ last.ret = 0 /\ UseDstream(last.size)) =>
          (IsStream(index[LastKey]) /\ index[LastKey].ds.ds_id = next_obj_id - 1)

W_C3_StreamIdsUnique ==
    \E k1, k2 \in Keys :
        /\ k1 # k2 /\ IsStream(index[k1]) /\ IsStream(index[k2])
        /\ last.op = "set" /\ last.ret = 0 /\ UseDstream(last.size)

\* C4: a set with XATTR_CREATE on a name that exists fails EEXIST, also when
\* the value is null, and leaves the record and its stream as they were: a
\* following get returns the value last set.
T_C4_CreateOnExisting ==
    (/\ last.op = "set" /\ last.fault = NoFault
     /\ "XATTR_CREATE" \in last.flags /\ LastFound.present) =>
        /\ last.ret = -EEXIST
        /\ index = last.pre
        /\ IsStream(LastFound) =>
             extents[LastFound.ds.ds_id] = last.pre_ext[LastFound.ds.ds_id]
        /\ written[LastKey].set =>
             LET r == apfs_xattr_get(index, extents, last.cnid, last.name,
                                     TRUE, WrittenLen, NoFault)
             IN  r.iret = WrittenLen /\ r.buf = written[LastKey].bytes

W_C4_CreateOnExisting ==
    /\ last.op = "set" /\ "XATTR_CREATE" \in last.flags /\ LastFound.present
    /\ last.value.null /\ last.ret = -EEXIST
    /\ IsStream(index[LastKey])

\* C5: a set with XATTR_REPLACE on a name that does not exist fails ENODATA,
\* for inline and stream values alike; once its transaction has ended the
\* catalog holds no record for the key and nothing was created: catalog,
\* streams and blocks are as before.
T_C5_ReplaceOnMissing ==
    (/\ last.op = "set" /\ last.fault = NoFault
     /\ "XATTR_REPLACE" \in last.flags /\ ~LastFound.present) =>
        /\ last.ret = -ENODATA
        /\ ~index[LastKey].present
        /\ index = last.pre
        /\ extents = last.pre_ext
        /\ NoOrphanBlocks

W_C5_ReplaceOnMissing ==
    /\ last.op = "set" /\ "XATTR_REPLACE" \in last.flags /\ ~LastFound.present
    /\ UseDstream(last.size) /\ last.ret = -ENODATA

\* C6: a set with a null value and without XATTR_CREATE on an existing
\* record succeeds and removes the record; a following get fails ENODATA;
\* the stream of a stream-backed record has no block left.
T_C6_NullDeletes ==
    (/\ last.op = "set" /\ last.fault = NoFault
     /\ last.value.null /\ "XATTR_CREATE" \notin last.flags
     /\ LastFound.present /\ apfs_xattr_from_query(LastFound).err = 0) =>
        /\ last.ret = 0
        /\ ~index[LastKey].present
        /\ apfs_xattr_get(index, extents, last.cnid, last.name,
                          TRUE, 0, NoFault).ret = -ENODATA
        /\ IsStream(LastFound) => extents[LastFound.ds.ds_id] = <<>>

W_C6_NullDeletes ==
    /\ last.op = "set" /\ last.value.null /\ last.ret = 0
    /\ IsStream(LastFound) /\ last.pre_ext[LastFound.ds.ds_id] # <<>>
    /\ ~index[LastKey].present

\* C7 (as claimed): a set with a null value never adds a record: if the key
\* was absent before the call, it is absent after it, whatever the flags.
CE_C7_NullNeverAdds ==
    (last.op = "set" /\ last.value.null /\ ~LastFound.present) =>
        ~index[LastKey].present

\* C8: after a successful deleteAll of an owner the catalog holds no record
\* of the owner, list without a buffer returns 0, the stream of every record
\* removed has no block left, and the records and streams of the other
\* owners are as before.
T_C8_DeleteAll ==
    (last.op = "deleteAll" /\ last.fault = NoFault /\ last.ret = 0) =>
        /\ \A n \in Names : ~index[<<last.cnid, n>>].present
        /\ apfs_listxattr(index, last.cnid, FALSE, 0, NoFault).ret = 0
        /\ \A n \in Names : IsStream(last.pre[<<last.cnid, n>>]) =>
              extents[last.pre[<<last.cnid, n>>].ds.ds_id] = <<>>
        /\ \A k \in Keys : k[1] # last.cnid =>
              /\ index[k] = last.pre[k]
              /\ IsStream(index[k]) =>
                    extents[index[k].ds.ds_id] = last.pre_ext[index[k].ds.ds_id]

W_C8_DeleteAll ==
    /\ last.op = "deleteAll" /\ last.ret = 0
    /\ \E n1, n2 \in Names :
          IsInline(last.pre[<<last.cnid, n1>>]) /\ IsStream(last.pre[<<last.cnid, n2>>])
    /\ \E k \in Keys : k[1] # last.cnid /\ IsStream(index[k])

\* C9: a get into a buffer smaller than the value fails ERANGE and writes
\* nothing; a get without a buffer returns the value's length from
\* __apfs_xattr_get, copies nothing and resolves, gets, reads or waits for
\* no block; for inline and stream-backed records alike.
T_C9_SmallOrNoBuffer ==
    (last.op = "get" /\ last.fault = NoFault /\ written[LastKey].set) =>
        /\ (last.hasbuf /\ last.size < WrittenLen) =>
              /\ last.ret = -ERANGE
              /\ last.buf = <<>>
              /\ EventsOf(last.log, {"copy"}) = <<>>
        /\ ~last.hasbuf =>
              /\ last.iret = WrittenLen
              /\ last.buf = <<>>
              /\ EventsOf(last.log, {"copy", "resolve", "getblk", "submit", "wait"}) = <<>>

W_C9_SmallOrNoBuffer ==
    /\ last.op = "get" /\ written[LastKey].set /\ IsStream(index[LastKey])
    /\ last.hasbuf /\ 0 < last.size /\ last.size < WrittenLen
    /\ last.ret = -ERANGE

Entry(name) == XATTR_MAC_OSX_PREFIX \o name \o <<0>>
\* the entries of the first n of the names
ListOf(names, n) == Cat([i \in 0..(n - 1) |-> Entry(names[i + 1])], n)
\* the names of the owner's records, in key order
NamesOf(idx, cnid) == SelectSeq(NameSeq, LAMBDA n : idx[<<cnid, n>>].present)
AllOf(idx, cnid) == ListOf(NamesOf(idx, cnid), Len(NamesOf(idx, cnid)))

\* C11: for every owner, whatever attributes it has: list without a buffer
\* returns the sum over the owner's attributes of prefix length + name
\* length + 1, whatever the capacity argument; list with a buffer of exactly
\* that capacity returns the same number and writes exactly prefix + name +
\* NUL for each attribute, in key order.
T_C11_ListTotal ==
    /\ \A o \in Owners, b \in ListBuffers :
          LET r == apfs_listxattr(index, o, b[1], b[2], NoFault)
          IN  /\ ~b[1] => (r.ret = Len(AllOf(index, o)) /\ r.buf = <<>>)
              /\ (b[1] /\ b[2] = Len(AllOf(index, o))) =>
                    (r.ret = b[2] /\ r.buf = AllOf(index, o))
    /\ (last.op = "list" /\ last.fault = NoFault) =>
          /\ ~last.hasbuf =>
                (last.ret = Len(AllOf(last.pre, last.cnid)) /\ last.buf = <<>>)
          /\ (last.hasbuf /\ last.size = Len(AllOf(last.pre, last.cnid))) =>
                (last.ret = last.size /\ last.buf = AllOf(last.pre, last.cnid))

W_C11_ListTotal ==
    /\ last.op = "list" /\ last.hasbuf /\ last.size = 13 /\ last.ret = 13
    /\ last.buf = <<111, 115, 120, 46, 97, 0, 111, 115, 120, 46, 98, 97, 0>>
    /\ apfs_listxattr(index, last.cnid, FALSE, 6, NoFault).ret = 13

\* C12: list with a buffer writes at most the capacity and only whole
\* entries: the bytes written are the entries of the first j attributes; the
\* call fails ERANGE exactly when the next entry does not fit in what is
\* left, and nothing of that entry is written.
T_C12_ListWholeEntries ==
    (last.op = "list" /\ last.fault = NoFault /\ last.hasbuf) =>
        LET names == NamesOf(last.pre, last.cnid)
        IN  /\ Len(last.buf) <= last.size
            /\ \E j \in 0..Len(names) :
                  /\ last.buf = ListOf(names, j)
                  /\ j < Len(names) =>
                        /\ last.ret = -ERANGE
                        /\ Len(ListOf(names, j + 1)) > last.size
                  /\ j = Len(names) => last.ret = Len(last.buf)

W_C12_ListWholeEntries ==
    /\ last.op = "list" /\ last.hasbuf /\ last.size = 7
    /\ last.ret = -ERANGE /\ Len(last.buf) = 6
    /\ Len(NamesOf(last.pre, last.cnid)) = 2

\* the stored name has at least one byte before its terminator, ends with
\* the terminator and is as long as the key says
WellNamed(rec) ==
    /\ Len(rec.key_name) >= 2
    /\ rec.key_name[Len(rec.key_name)] = 0
    /\ rec.name_len = Len(rec.key_name)

\* C13 (as claimed): every record that decode accepts has a name of at least
\* one byte before the terminator, ends with the terminator and has the
\* length its key declares: a list that succeeded, having decoded every record
\* of the owner, found only such records.
CE_C13_DecodedNameNotEmpty ==
    (last.op = "list" /\ last.ret >= 0) =>
        \A n \in Names : last.pre[<<last.cnid, n>>].present =>
            WellNamed(last.pre[<<last.cnid, n>>])

\* the record does not pass the checks of the decoder
FailsDecoding(rec) ==
    /\ rec.present
    /\ \/ Len(rec.key_name) < 1
       \/ rec.name_len # Len(rec.key_name)
       \/ rec.key_name[Len(rec.key_name)] # 0
       \/ ("DATA_STREAM" \in rec.flags /\ rec.datalen # SIZEOF_XATTR_DSTREAM)
       \/ ("DATA_STREAM" \notin rec.flags /\ rec.datalen # rec.xdata_len)

\* the steps of the last operation and their names
Steps == last.steps
StepEvs == [i \in 1..Len(Steps) |-> Steps[i].ev]
HasStep(evs) == \E i \in 1..Len(Steps) : Steps[i].ev \in evs
CountSteps(evs) == Cardinality({i \in 1..Len(Steps) : Steps[i].ev \in evs})
\* every stream a record of the catalog references has all its blocks
Intact(idx, ext) ==
    \A k \in Keys : IsStream(idx[k]) =>
        Len(ext[idx[k].ds.ds_id]) = BlkCnt(idx[k].ds.ds_size)
\* no block that the operation found allocated has been freed
NothingFreed(ext) == \A id \in ObjIds : Len(ext[id]) >= Len(last.pre_ext[id])

\* C14: a stream is reclaimed only after the catalog has stopped referencing
\* it: every truncation directly follows the successful replace or remove of
\* the record; a failed replace, insert or remove frees no block and no
\* truncation follows it; and after every step of a set or deleteAll no
\* record of the catalog references a stream with freed blocks.
T_C14_ReclaimAfterIndex ==
    (last.op \in {"set", "deleteAll"}) =>
        /\ \A i \in 1..Len(Steps) : Intact(Steps[i].index, Steps[i].extents)
        /\ \A i \in 1..Len(Steps) :
              Steps[i].ev \in {"truncate", "truncate_failed"} =>
                  (i > 1 /\ Steps[i - 1].ev \in {"replace", "remove"})
        /\ \A i \in 1..Len(Steps) :
              Steps[i].ev \in {"replace_failed", "insert_failed", "remove_failed"} =>
                  /\ i > 1 /\ Steps[i].extents = Steps[i - 1].extents
                  /\ \A j \in (i + 1)..Len(Steps) :
                        Steps[j].ev \notin {"truncate", "truncate_failed"}
        /\ (last.op = "set" /\ HasStep({"replace_failed", "insert_failed",
                                          "remove_failed"})) =>
              \A i \in 1..Len(Steps) : NothingFreed(Steps[i].extents)

W_C14_ReclaimAfterIndex ==
    /\ last.op = "set" /\ last.ret = 0 /\ IsStream(LastFound)
    /\ UseDstream(last.size)
    /\ \E i \in 2..Len(Steps) :
          /\ Steps[i].ev = "truncate" /\ Steps[i - 1].ev = "replace"
          /\ Steps[i - 1].extents[LastFound.ds.ds_id] # <<>>
          /\ Steps[i].extents[LastFound.ds.ds_id] = <<>>

\* the last step of the last operation
LastStep == Steps[Len(Steps)]
FailedSteps ==
    {"create_failed", "insert_failed", "replace_failed", "remove_failed",
     "truncate_failed", "commit_failed"}

\* C15: a set whose transaction started ends it with exactly one commit or
\* abort, as its last step; it commits exactly when it returns 0, and then no
\* step has failed, every allocated block belongs to the stream of a live
\* record and the stream of the record replaced or deleted has no block
\* left; whenever a step fails (stream creation, lookup, flag conflict,
\* insert, replace, removal, truncation, commit) it returns the error and
\* aborts, and catalog and streams are as before the call.
T_C15_SetAllOrNothing ==
    (last.op = "set") =>
        /\ Steps = <<>> =>
              (last.ret # 0 /\ index = last.pre /\ extents = last.pre_ext)
        /\ Steps # <<>> =>
              /\ Steps[1].ev = "start"
              /\ CountSteps({"commit", "abort"}) = 1
              /\ LastStep.ev \in {"commit", "abort"}
              /\ LastStep.ev = "commit" <=> last.ret = 0
              /\ HasStep(FailedSteps) => last.ret # 0
              /\ LastStep.index = index /\ LastStep.extents = extents
        /\ last.ret = 0 =>
              /\ NoOrphanBlocks
              /\ Intact(index, extents)
              /\ (IsStream(LastFound) /\ ~FailsDecoding(LastFound)) =>
                    extents[LastFound.ds.ds_id] = <<>>
        /\ last.ret # 0 =>
              /\ index = last.pre /\ extents = last.pre_ext
              /\ NoOrphanBlocks

W_C15_SetAllOrNothing ==
    /\ last.op = "set" /\ last.ret = -EIO
    /\ StepEvs = <<"start", "create", "replace", "truncate_failed", "abort">>
    /\ index = last.pre /\ IsStream(index[LastKey])

\* C16 (as claimed): when the creation of a stream fails, no block that the
\* call allocated is still allocated when it returns the error: the streams
\* are as the set found them.
CE_C16_CreateFailureFreesBlocks ==
    (last.op = "set") =>
        \A i \in 1..Len(Steps) :
            Steps[i].ev = "create_failed" => Steps[i].extents = last.pre_ext

\* the events of the last read and where they stand in it
Log == last.log
EvAt(e) == {p \in 1..Len(Log) : Log[p].ev = e}
\* a read of the whole value of a well-formed stream-backed record
StreamRead ==
    /\ last.op = "get" /\ IsStream(LastFound) /\ ~FailsDecoding(LastFound)
    /\ LastFound.ds.ds_size_hi = 0
    /\ last.hasbuf /\ last.size >= LastFound.ds.ds_size
\* the blocks of the stream read, and how many the value takes
ReadBlocks == last.pre_ext[LastFound.ds.ds_id]
ReadBlkCnt == BlkCnt(LastFound.ds.ds_size)
\* the first n bytes of the stream
StreamBytes(n) ==
    SubSeq(Cat([i \in 0..(Len(ReadBlocks) - 1) |-> ReadBlocks[i + 1].data],
               Len(ReadBlocks)), 1, n)
HasHole == \E i \in 1..Len(ReadBlocks) : ReadBlocks[i].st = "hole"

OwnerRecs ==
    [i \in 1..Len(NamesOf(last.pre, last.cnid)) |->
        last.pre[<<last.cnid, NamesOf(last.pre, last.cnid)[i]>>]]
BadRecs == {i \in 1..Len(OwnerRecs) : FailsDecoding(OwnerRecs[i])}
\* the list entries of the records before the j-th, as they are stored
StoredBefore(j) ==
    Cat([i \in 0..(j - 2) |-> XATTR_MAC_OSX_PREFIX \o OwnerRecs[i + 1].key_name],
        j - 1)
\* the volume when the last operation returned to its transaction
AtReturn == Steps[Len(Steps) - 1]

\* C19: a record that fails decoding is neither skipped nor repaired: get on
\* it fails EFSCORRUPTED and copies nothing; list fails EFSCORRUPTED at the
\* first such record of the owner, with only the entries before it written;
\* set (replace or delete) on it fails EFSCORRUPTED, no step of it changes
\* the catalog or frees a block; deleteAll fails EFSCORRUPTED at the first
\* such record, having removed exactly the records before it, with that
\* record and the ones after it still in place.
T_C19_CorruptedNeverSkipped ==
    /\ (last.op = "get" /\ last.fault = NoFault /\ FailsDecoding(LastFound)) =>
          /\ last.ret = -EFSCORRUPTED /\ last.iret = -EFSCORRUPTED
          /\ last.buf = <<>> /\ last.log = <<>>
    /\ (last.op = "list" /\ BadRecs # {}) =>
          IF last.hasbuf /\ Len(StoredBefore(SetMin(BadRecs))) > last.size
            THEN last.ret = -ERANGE
            ELSE /\ last.ret = -EFSCORRUPTED
                 /\ last.buf = IF last.hasbuf THEN StoredBefore(SetMin(BadRecs))
                                ELSE <<>>
    /\ (last.op = "set" /\ "XATTR_CREATE" \notin last.flags
           /\ FailsDecoding(LastFound)) =>
          /\ last.ret = -EFSCORRUPTED
          /\ index = last.pre
          /\ \A i \in 1..Len(Steps) :
                /\ Steps[i].index = last.pre
                /\ NothingFreed(Steps[i].extents)
                /\ Steps[i].ev \in {"start", "create", "abort"}
    /\ (last.op = "deleteAll" /\ BadRecs # {}) =>
          /\ last.ret = -EFSCORRUPTED
          /\ CountSteps({"remove"}) = SetMin(BadRecs) - 1
          /\ CountSteps({"query"}) = SetMin(BadRecs)
          /\ AtReturn.ev \in {"query"}
          /\ \A i \in 1..Len(OwnerRecs) :
                LET k == <<last.cnid, NamesOf(last.pre, last.cnid)[i]>>
                IN  IF i < SetMin(BadRecs)
                      THEN ~AtReturn.index[k].present
                      ELSE /\ AtReturn.index[k] = last.pre[k]
                           /\ IsStream(last.pre[k]) =>
                                 AtReturn.extents[last.pre[k].ds.ds_id]
                                     = last.pre_ext[last.pre[k].ds.ds_id]

W_C19_CorruptedNeverSkipped ==
    /\ last.op = "deleteAll" /\ last.ret = -EFSCORRUPTED
    /\ SetMin(BadRecs) = 2 /\ IsStream(OwnerRecs[1])
    /\ StepEvs = <<"start", "query", "remove", "truncate", "query", "abort">>
    /\ index = last.pre

\* C18: every record a set has written is embedded if and only if its value
\* is no longer than APFS_XATTR_MAX_EMBEDDED_SIZE and stream-backed
\* otherwise, whatever the record it replaced was; an embedded record carries
\* a payload and no stream reference, a stream-backed record a stream
\* reference and no payload.
T_C18_InlineIffShort ==
    /\ \A k \in Keys : written[k].set =>
          /\ index[k].present
          /\ IsInline(index[k]) <=>
                Len(written[k].bytes) <= APFS_XATTR_MAX_EMBEDDED_SIZE
          /\ IsStream(index[k]) <=>
                Len(written[k].bytes) > APFS_XATTR_MAX_EMBEDDED_SIZE
    /\ \A k \in Keys :
          /\ IsInline(index[k]) =>
                /\ "DATA_EMBEDDED" \in index[k].flags
                /\ index[k].ds = NoDs
                /\ Len(index[k].xdata) = index[k].datalen
                /\ index[k].datalen <= APFS_XATTR_MAX_EMBEDDED_SIZE
          /\ IsStream(index[k]) =>
                /\ "DATA_EMBEDDED" \notin index[k].flags
                /\ index[k].xdata = <<>>
                /\ index[k].ds.ds_id >= FirstObjId
                /\ index[k].ds.ds_size > APFS_XATTR_MAX_EMBEDDED_SIZE
    /\ (last.op = "set" /\ last.ret = 0 /\ ~last.value.null) =>
          (IsStream(index[LastKey]) <=> last.size > APFS_XATTR_MAX_EMBEDDED_SIZE)

W_C18_InlineIffShort ==
    /\ last.op = "set" /\ last.ret = 0 /\ ~last.value.null
    /\ IsStream(LastFound) /\ IsInline(index[LastKey])
    /\ \E k \in Keys : k # LastKey /\ IsStream(index[k])

\* the places of the lookups among the steps of the last deleteAll
QueryAt == {p \in 1..Len(Steps) : Steps[p].ev = "query"}
\* the records the owner has in a catalog
RecsIn(idx) == {n \in Names : idx[<<last.cnid, n>>].present}

\* C20: a deleteAll of an owner with n records ends after at most n + 1
\* lookups: between a lookup and the next exactly one record of the owner was
\* removed and nothing failed; it returns 0 when a lookup finds no record
\* left, after n + 1 lookups and n removals; after a failure of a lookup or
\* of a single delete in iteration i no further lookup is made and the error
\* is returned.
T_C20_DeleteAllTerminates ==
    (last.op = "deleteAll" /\ Steps # <<>>) =>
        /\ CountSteps({"query"}) <= Cardinality(RecsIn(last.pre)) + 1
        /\ \A p, q \in QueryAt :
              (p < q /\ \A m \in QueryAt : ~(p < m /\ m < q)) =>
                  /\ Cardinality({m \in (p + 1)..(q - 1) : Steps[m].ev = "remove"}) = 1
                  /\ \A m \in (p + 1)..(q - 1) : Steps[m].ev \notin FailedSteps
                  /\ RecsIn(Steps[q].index) \subseteq RecsIn(Steps[p].index)
                  /\ Cardinality(RecsIn(Steps[q].index))
                        = Cardinality(RecsIn(Steps[p].index)) - 1
        /\ last.ret = 0 =>
              /\ CountSteps({"query"}) = Cardinality(RecsIn(last.pre)) + 1
              /\ CountSteps({"remove"}) = Cardinality(RecsIn(last.pre))
              /\ RecsIn(index) = {}
        /\ \A m \in 1..Len(Steps) : Steps[m].ev \in FailedSteps =>
              /\ last.ret # 0
              /\ \A p \in QueryAt : p < m
        /\ (last.ret # 0 /\ last.fault.at \in DeleteFaultPlaces) =>
              CountSteps({"query"}) = IF last.fault.at = "alloc_query"
                                        THEN last.fault.n ELSE last.fault.n + 1

W_C20_DeleteAllTerminates ==
    /\ last.op = "deleteAll" /\ last.ret = -EIO
    /\ Cardinality(RecsIn(last.pre)) = 2
    /\ StepEvs = <<"start", "query", "remove", "truncate", "query",
                   "remove_failed", "abort">>

\* the records that reference the stream id
RefsTo(id) == {k \in Keys : IsStream(index[k]) /\ index[k].ds.ds_id = id}

\* C21: after any sequence of sets, deletes and deleteAlls, each ended by its
\* commit or its abort and whatever failed in them, the allocated stream
\* blocks are exactly the blocks 0 .. ceil(size / blocksize) - 1 of the
\* streams that live records reference: a stream with blocks is referenced
\* by exactly one record, the stream of every stream-backed record has all
\* its blocks and none is a hole, and a successful replace leaves the blocks
\* of the new value only.
T_C21_BlocksAreLiveStreams ==
    /\ \A id \in ObjIds : extents[id] # <<>> => Cardinality(RefsTo(id)) = 1
    /\ \A k \in Keys : IsStream(index[k]) =>
          /\ Len(extents[index[k].ds.ds_id]) = BlkCnt(index[k].ds.ds_size)
          /\ \A i \in 1..Len(extents[index[k].ds.ds_id]) :
                extents[index[k].ds.ds_id][i].st = "ok"
    /\ (last.op = "set" /\ last.ret = 0 /\ ~last.value.null) =>
          /\ IsStream(LastFound) => extents[LastFound.ds.ds_id] = <<>>
          /\ last.size > APFS_XATTR_MAX_EMBEDDED_SIZE =>
                /\ IsStream(index[LastKey])
                /\ Len(extents[index[LastKey].ds.ds_id]) = BlkCnt(last.size)
          /\ \A id \in ObjIds :
                (~(IsStream(LastFound) /\ id = LastFound.ds.ds_id)
                   /\ ~(IsStream(index[LastKey]) /\ id = index[LastKey].ds.ds_id)) =>
                    extents[id] = last.pre_ext[id]

W_C21_BlocksAreLiveStreams ==
    /\ last.op = "set" /\ last.ret = 0
    /\ IsStream(LastFound) /\ IsStream(index[LastKey])
    /\ LastFound.ds.ds_id # index[LastKey].ds.ds_id
    /\ last.pre_ext[LastFound.ds.ds_id] # <<>>
    /\ extents[LastFound.ds.ds_id] = <<>>
    /\ Len(extents[index[LastKey].ds.ds_id]) = 2

\* how many times the event e of block i stands in the last read
Count(e, i) == Cardinality({p \in 1..Len(Log) : Log[p] = Ev(e, i)})

\* C22 (as claimed): when a read of a stream-backed record returns, whatever
\* it returns, the dstream info it allocated has been freed, the array of
\* block buffers it allocated has been freed, and every block buffer it
\* obtained has been released exactly once.
CE_C22_ReadFreesAll ==
    (last.op = "get" /\ IsStream(LastFound) /\ ~FailsDecoding(LastFound)) =>
        /\ Count("kfree_dstream", 0) = Count("kzalloc_dstream", 0)
        /\ Count("kfree_bhs", 0) = Count("kcalloc_bhs", 0)
        /\ \A i \in 0..(ReadBlkCnt - 1) :
              /\ Count("submit", i) <= 1
              /\ Count("brelse", i) = Count("submit", i)

====
